---- MODULE Spec2Model ----
(***************************************************************************)
(* criterion-table: building comparison tables from Criterion benchmark    *)
(* records (table/src/lib.rs) and rendering them (formatter/gfm.rs).       *)
(*                                                                         *)
(* Strings are sequences of one-character strings, so that split('/'),     *)
(* chars().count() and the {:.2} formatting are computed, not assumed.     *)
(* An f64 is a base-1000 floating point number [m |-> mantissa,            *)
(* e |-> exponent] of value m * 1000^e with 0 < m < 10^6: division by      *)
(* 1000.0 and the picosecond factors (powers of 1000) are exact on it.     *)
(* FloatSpec evaluates TimeUnit::try_new and as_picoseconds in IEEE-754    *)
(* binary64 instead, where the division by 1000.0 rounds.                  *)
(* Measurements are positive, as Criterion's time estimates are.           *)
(***************************************************************************)
EXTENDS Integers, Sequences, FiniteSets, TLC

VARIABLES
    input,      \* raw_data[..k]: the records build_from_raw_data has consumed
    tables,     \* CriterionTableData.tables (IndexMap, in insertion order)
    col_pos,    \* ColumnPosition: row name -> occurrences so far
    result,     \* what from_raw has returned, if it has
    cfg,        \* what load_config has returned, if it has
    calls,      \* the Formatter calls make_tables has made, in order
    returned,   \* what build_tables has returned, if it has
    outcome,    \* what the process has written and its exit status, once ended
    t_pc,       \* TimeSpec: position of the unit-level run
    t_time,     \* TimeSpec: magnitude handed to TimeUnit::try_new
    t_unit,     \* TimeSpec: unit label handed to TimeUnit::try_new
    t_res,      \* TimeSpec: result of try_new(t_time, t_unit)
    t_again,    \* TimeSpec: result of parsing t_res's magnitude and unit again
    t_ratio,    \* TimeSpec: the f64 inside a Comparison
    t_text,     \* TimeSpec: Comparison::to_flex_str of t_ratio
    r_stream,   \* ReadSpec: the JSON values of the reader, in order
    r_cut,      \* ReadSpec: whether the reader ends inside its last value
    r_vec,      \* ReadSpec: from_reader's data_vec
    r_res,      \* ReadSpec: what from_reader has returned, if it has
    f_pc,       \* FloatSpec: position of the binary64 run
    f_time,     \* FloatSpec: the f64 magnitude handed to TimeUnit::try_new
    f_unit,     \* FloatSpec: unit label handed to TimeUnit::try_new
    f_res,      \* FloatSpec: result of try_new(f_time, f_unit)
    f_ps,       \* FloatSpec: as_picoseconds of f_res
    f_direct    \* FloatSpec: as_picoseconds of f_time in the unit f_unit names

vars == <<input, tables, col_pos, result, cfg, calls, returned, outcome,
          t_pc, t_time, t_unit, t_res, t_again, t_ratio, t_text,
          r_stream, r_cut, r_vec, r_res,
          f_pc, f_time, f_unit, f_res, f_ps, f_direct>>
buildVars == <<input, tables, col_pos, result, cfg, calls, returned, outcome>>
timeVars == <<t_pc, t_time, t_unit, t_res, t_again, t_ratio, t_text>>
readVars == <<r_stream, r_cut, r_vec, r_res>>
floatVars == <<f_pc, f_time, f_unit, f_res, f_ps, f_direct>>

(***************************************************************************)
(* Bounds of the model                                                     *)
(***************************************************************************)
\* longest input (number of records) a build consumes
MaxRecords == 3
\* largest number of JSON values in the reader from_reader is given
MaxStream == 3
\* largest base-1000 exponent of a magnitude handed to try_new
MaxExp == 4
\* numerators and denominators of the ratios handed to Comparison rendering
MaxRatioTerm == 8

(***************************************************************************)
(* Text                                                                    *)
(***************************************************************************)
Max(a, b) == IF a >= b THEN a ELSE b

\* str::chars().count()
CharCount(s) == Len(s)

\* position of the first ch in s, 0 when there is none
RECURSIVE IndexOf(_, _, _)
IndexOf(s, ch, from) ==
    IF from > Len(s) THEN 0
    ELSE IF s[from] = ch THEN from
    ELSE IndexOf(s, ch, from + 1)

\* str::split('/'): the segments between separators; "" gives one empty segment
RECURSIVE Split(_, _)
Split(s, ch) ==
    LET i == IndexOf(s, ch, 1)
    IN  IF i = 0 THEN <<s>>
        ELSE <<SubSeq(s, 1, i - 1)>> \o Split(SubSeq(s, i + 1, Len(s)), ch)

\* str::contains for a pattern given as characters
Contains(s, pat) ==
    \E i \in 1..(Len(s) - Len(pat) + 1) : SubSeq(s, i, i + Len(pat) - 1) = pat

DigitChar(d) == <<"0", "1", "2", "3", "4", "5", "6", "7", "8", "9">>[d + 1]

RECURSIVE Digits(_)
Digits(n) == IF n < 10 THEN <<DigitChar(n)>>
             ELSE Digits(n \div 10) \o <<DigitChar(n % 10)>>

(***************************************************************************)
(* f64                                                                     *)
(***************************************************************************)
RECURSIVE Pow1000(_)
Pow1000(k) == IF k = 0 THEN 1 ELSE 1000 * Pow1000(k - 1)

F(m, e) == [m |-> m, e |-> e]

\* a > b on f64 (mantissas are below 10^6)
FGt(a, b) ==
    LET d == a.e - b.e
    IN  IF d >= 2 THEN TRUE
        ELSE IF d = 1 THEN a.m * 1000 > b.m
        ELSE IF d = 0 THEN a.m > b.m
        ELSE IF d = -1 THEN a.m > b.m * 1000
        ELSE FALSE

FEq(a, b) == ~FGt(a, b) /\ ~FGt(b, a)

\* a / 1000.0
FDiv1000(a) == F(a.m, a.e - 1)

Thousand == F(1, 1)

\* the quotient of two f64: n/d * 1000^e
Q(n, d, e) == [n |-> n, d |-> d, e |-> e]
QOne == Q(1, 1, 0)
QInv(q) == Q(q.d, q.n, -q.e)
QGtOne(q) == FGt(F(q.n, q.e), F(q.d, 0))
QLtOne(q) == FGt(F(q.d, 0), F(q.n, q.e))
QOfF(a) == Q(a.m, 1, a.e)
QEq(p, q) == FEq(F(p.n * q.d, p.e), F(q.n * p.d, q.e))

\* format!("{:.2}"): the value in hundredths, rounded half to even
Hundredths(q) ==
    LET num == IF q.e >= 0 THEN 100 * q.n * Pow1000(q.e) ELSE 100 * q.n
        den == IF q.e >= 0 THEN q.d ELSE q.d * Pow1000(-q.e)
        quo == num \div den
        rem == num % den
    IN  IF 2 * rem > den \/ (2 * rem = den /\ quo % 2 = 1) THEN quo + 1 ELSE quo

Fmt2(q) ==
    LET c == Hundredths(q)
    IN  Digits(c \div 100) \o <<".", DigitChar((c \div 10) % 10), DigitChar(c % 10)>>

(***************************************************************************)
(* TimeUnit                                                                *)
(***************************************************************************)
LblS  == <<"s">>
LblMs == <<"m", "s">>
LblUs == <<"u", "s">>
LblNs == <<"n", "s">>
LblPs == <<"p", "s">>

TimeUnit(unit, time) == [unit |-> unit, time |-> time]
NoTime == TimeUnit("None", F(1, 0))

Ok(v) == [ok |-> TRUE, val |-> v, err |-> <<>>]
Err(msg) == [ok |-> FALSE, val |-> NoTime, err |-> msg]

\* the guard written `time >= 1000.0`
PromotesFromThousand(time) == ~FGt(Thousand, time)

\* the guard `time > 1000.0` of the promoting arms
Promotes(time) == FGt(time, Thousand)

\* TimeUnit::try_new without the recursion: promotes by one unit at most
try_new_once(time, unit) ==
    IF unit = LblMs /\ FGt(time, Thousand) THEN Ok(TimeUnit("Second", FDiv1000(time)))
    ELSE IF unit = LblUs /\ FGt(time, Thousand) THEN Ok(TimeUnit("Millisecond", FDiv1000(time)))
    ELSE IF unit = LblNs /\ FGt(time, Thousand) THEN Ok(TimeUnit("Microsecond", FDiv1000(time)))
    ELSE IF unit = LblPs /\ FGt(time, Thousand) THEN Ok(TimeUnit("Nanosecond", FDiv1000(time)))
    ELSE IF unit = LblS THEN Ok(TimeUnit("Second", time))
    ELSE IF unit = LblMs THEN Ok(TimeUnit("Millisecond", time))
    ELSE IF unit = LblUs THEN Ok(TimeUnit("Microsecond", time))
    ELSE IF unit = LblNs THEN Ok(TimeUnit("Nanosecond", time))
    ELSE IF unit = LblPs THEN Ok(TimeUnit("Picosecond", time))
    ELSE Err(unit)

\* TimeUnit::try_new whose wildcard arm falls back to seconds
RECURSIVE try_new_lenient(_, _)
try_new_lenient(time, unit) ==
    IF unit = LblMs /\ FGt(time, Thousand) THEN try_new_lenient(FDiv1000(time), LblS)
    ELSE IF unit = LblUs /\ FGt(time, Thousand) THEN try_new_lenient(FDiv1000(time), LblMs)
    ELSE IF unit = LblNs /\ FGt(time, Thousand) THEN try_new_lenient(FDiv1000(time), LblUs)
    ELSE IF unit = LblPs /\ FGt(time, Thousand) THEN try_new_lenient(FDiv1000(time), LblNs)
    ELSE IF unit = LblMs THEN Ok(TimeUnit("Millisecond", time))
    ELSE IF unit = LblUs THEN Ok(TimeUnit("Microsecond", time))
    ELSE IF unit = LblNs THEN Ok(TimeUnit("Nanosecond", time))
    ELSE IF unit = LblPs THEN Ok(TimeUnit("Picosecond", time))
    ELSE Ok(TimeUnit("Second", time))

\* TimeUnit::try_new: the anyhow error is modelled by the label it names
RECURSIVE try_new(_, _)
try_new(time, unit) ==
    IF unit = LblMs /\ Promotes(time) THEN try_new(FDiv1000(time), LblS)
    ELSE IF unit = LblUs /\ Promotes(time) THEN try_new(FDiv1000(time), LblMs)
    ELSE IF unit = LblNs /\ Promotes(time) THEN try_new(FDiv1000(time), LblUs)
    ELSE IF unit = LblPs /\ Promotes(time) THEN try_new(FDiv1000(time), LblNs)
    ELSE IF unit = LblS THEN Ok(TimeUnit("Second", time))
    ELSE IF unit = LblMs THEN Ok(TimeUnit("Millisecond", time))
    ELSE IF unit = LblUs THEN Ok(TimeUnit("Microsecond", time))
    ELSE IF unit = LblNs THEN Ok(TimeUnit("Nanosecond", time))
    ELSE IF unit = LblPs THEN Ok(TimeUnit("Picosecond", time))
    ELSE Err(unit)

\* the unit suffix to_flex_str writes after the magnitude
Suffix(tu) ==
    CASE tu.unit = "Second" -> LblS
      [] tu.unit = "Millisecond" -> LblMs
      [] tu.unit = "Microsecond" -> LblUs
      [] tu.unit = "Nanosecond" -> LblNs
      [] tu.unit = "Picosecond" -> LblPs

\* impl ToFlexStr for TimeUnit: "{time:.2} <suffix>"
TimeUnit_to_flex_str(tu) == Fmt2(QOfF(tu.time)) \o <<" ">> \o Suffix(tu)

\* TimeUnit::width
TimeUnit_width(tu) == CharCount(TimeUnit_to_flex_str(tu))

\* TimeUnit::as_picoseconds: the factors are 1000^4 .. 1000^0
as_picoseconds(tu) ==
    CASE tu.unit = "Second" -> F(tu.time.m, tu.time.e + 4)
      [] tu.unit = "Millisecond" -> F(tu.time.m, tu.time.e + 3)
      [] tu.unit = "Microsecond" -> F(tu.time.m, tu.time.e + 2)
      [] tu.unit = "Nanosecond" -> F(tu.time.m, tu.time.e + 1)
      [] tu.unit = "Picosecond" -> tu.time

\* impl Div for TimeUnit
TimeUnit_div(lhs, rhs) ==
    LET unit1 == as_picoseconds(lhs)
        unit2 == as_picoseconds(rhs)
    IN  Q(unit1.m, unit2.m, unit1.e - unit2.e)

(***************************************************************************)
(* Comparison                                                              *)
(***************************************************************************)
XFaster == <<"x", " ", "f", "a", "s", "t", "e", "r">>
XSlower == <<"x", " ", "s", "l", "o", "w", "e", "r">>

\* impl ToFlexStr for Comparison that does not invert a ratio below one
Comparison_to_flex_str_plain(c) ==
    IF QGtOne(c) THEN Fmt2(c) \o XFaster
    ELSE IF QLtOne(c) THEN Fmt2(c) \o XSlower
    ELSE Fmt2(c) \o <<"x">>

\* impl ToFlexStr for Comparison
Comparison_to_flex_str(c) ==
    IF QGtOne(c) THEN Fmt2(c) \o XFaster
    ELSE IF QLtOne(c) THEN Fmt2(QInv(c)) \o XSlower
    ELSE Fmt2(c) \o <<"x">>

\* Comparison::width
Comparison_width(c) == CharCount(Comparison_to_flex_str(c))

(***************************************************************************)
(* ColumnInfo, Column, Row, ColumnInfoVec                                  *)
(***************************************************************************)
\* ColumnInfo::new
ColumnInfo(name, width) == [name |-> name, max_width |-> width]

\* ColumnInfo::update_info that overwrites the width
update_info_assign(col_info, width) == [col_info EXCEPT !.max_width = width]

\* ColumnInfo::update_info
update_info(col_info, width) == [col_info EXCEPT !.max_width = Max(@, width)]

None == [some |-> FALSE, val |-> NoTime]
Some(v) == [some |-> TRUE, val |-> v]

\* Column::new
Column_new(name, time_unit, first_col_time) ==
    [name |-> name,
     time_unit |-> time_unit,
     pct |-> IF first_col_time.some THEN TimeUnit_div(first_col_time.val, time_unit)
             ELSE QOne]

\* Column::width counting the time only
Column_width_time_only(col) == TimeUnit_width(col.time_unit)

\* Column::width
Column_width(col) == TimeUnit_width(col.time_unit) + Comparison_width(col.pct)

\* Row::new
Row_new(name) == [name |-> name, column_data |-> <<>>]

\* Row::first_column_time reading the column recorded last
first_column_time_last(row) ==
    IF row.column_data = <<>> THEN None
    ELSE Some(row.column_data[Len(row.column_data)].time_unit)

\* Row::first_column_time
first_column_time(row) ==
    IF row.column_data = <<>> THEN None
    ELSE Some(row.column_data[1].time_unit)

\* position of the first element called name, 0 when there is none
\* (Iterator::find, IndexMap::get_index_of)
RECURSIVE FindName(_, _, _)
FindName(seq, name, from) ==
    IF from > Len(seq) THEN 0
    ELSE IF seq[from].name = name THEN from
    ELSE FindName(seq, name, from + 1)

\* Row::add_column that records the column whether or not the name is taken
add_column_merge(row, name, time_unit) ==
    LET col == Column_new(name, time_unit, first_column_time(row))
    IN  [ok |-> TRUE, row |-> [row EXCEPT !.column_data = Append(@, col)], col |-> col]

\* Row::add_column: ok is FALSE for Err("Duplicate column: {name}")
add_column(row, name, time_unit) ==
    LET first_time == first_column_time(row)
        col == Column_new(name, time_unit, first_time)
    IN  IF FindName(row.column_data, name, 1) > 0
        THEN [ok |-> FALSE, row |-> row, col |-> col]
        ELSE [ok |-> TRUE, row |-> [row EXCEPT !.column_data = Append(@, col)],
              col |-> col]

\* Vec::insert(idx, x) for idx <= len
InsertAt(seq, idx, x) == SubSeq(seq, 1, idx) \o <<x>> \o SubSeq(seq, idx + 1, Len(seq))

\* ColumnInfoVec::update_column_info: ok is FALSE when Vec::insert panics
\* (index > len)
update_column_info(cols, idx, name, width) ==
    LET i == FindName(cols, name, 1)
    IN  IF i > 0 THEN [ok |-> TRUE, cols |-> [cols EXCEPT ![i] = update_info(@, width)]]
        ELSE IF idx <= Len(cols)
             THEN [ok |-> TRUE, cols |-> InsertAt(cols, idx, ColumnInfo(name, width))]
             ELSE [ok |-> FALSE, cols |-> cols]

(***************************************************************************)
(* Table                                                                   *)
(***************************************************************************)
\* Table::new
Table_new(name) == [name |-> name, columns |-> <<>>, rows |-> <<>>]

\* Table::get_row: the rows with the row in them
get_row(rows, name) ==
    IF FindName(rows, name, 1) > 0 THEN rows ELSE Append(rows, Row_new(name))

\* Table::add_column_data: status is "Ok", "Duplicate" (the error of
\* add_column) or "Panic"; table is self as the call leaves it
add_column_data(table, idx, column_name, row_name, time) ==
    LET cols0 == update_column_info(table.columns, 0, <<>>, CharCount(row_name)).cols
        rows0 == get_row(table.rows, row_name)
        r == FindName(rows0, row_name, 1)
        added == add_column(rows0[r], column_name, time)
        width == Max(Column_width(added.col), CharCount(column_name))
        upd == update_column_info(cols0, idx, column_name, width)
    IN  IF ~added.ok
        THEN [status |-> "Duplicate",
              table |-> [table EXCEPT !.columns = cols0, !.rows = rows0]]
        ELSE [status |-> IF upd.ok THEN "Ok" ELSE "Panic",
              table |-> [table EXCEPT !.columns = upd.cols,
                                      !.rows = [rows0 EXCEPT ![r] = added.row]]]

(***************************************************************************)
(* ColumnPosition                                                          *)
(***************************************************************************)
\* ColumnPosition::next_idx: the map after the call; the index returned is
\* its value at row_name
next_idx(pos, row_name) ==
    IF row_name \in DOMAIN pos THEN [pos EXCEPT ![row_name] = @ + 1]
    ELSE [x \in DOMAIN pos \cup {row_name} |-> IF x = row_name THEN 1 ELSE pos[x]]

(***************************************************************************)
(* CriterionTableData                                                      *)
(***************************************************************************)
\* what from_raw has returned: nothing yet, Ok(data), Err(anyhow error), or a
\* panic that unwound through it
Building == [tag |-> "Building", kind |-> "", arg |-> <<>>]
Built == [tag |-> "Ok", kind |-> "", arg |-> <<>>]
BuildError(kind, arg) == [tag |-> "Err", kind |-> kind, arg |-> arg]
Panicked == [tag |-> "Panic", kind |-> "", arg |-> <<>>]

\* ColumnPosition::default
EmptyMap == [x \in {} |-> 0]

\* CriterionTableData::get_table putting a new table first
get_table_front(tbls, name) ==
    IF FindName(tbls, name, 1) > 0 THEN tbls ELSE <<Table_new(name)>> \o tbls

\* CriterionTableData::get_table: the tables with the table in them
get_table(tbls, name) ==
    IF FindName(tbls, name, 1) > 0 THEN tbls ELSE Append(tbls, Table_new(name))

\* `parts.len() < 3`
TooFewPartsOfThree(parts) == Len(parts) < 3

\* `parts.len() < 2`
TooFewParts(parts) == Len(parts) < 2

\* a match that lets every record through
is_any_record(item) == TRUE

\* `if let RawCriterionData::Benchmark(bm) = item`
is_benchmark(item) == item.kind = "Benchmark"

\* the row name of an id without a row segment taken from its column segment
RowNameFromColumn(parts) == IF Len(parts) > 2 THEN parts[3] ELSE parts[2]

\* `let row_name = if !parts.is_empty() { parts.remove(0) } else { "".into() }`
\* after table and column name were removed from parts
RowName(parts) == IF Len(parts) > 2 THEN parts[3] ELSE <<>>

\* One iteration of the loop of build_from_raw_data over `item`, from the
\* builder state st = [tables, col_pos, result]
build_item(st, item) ==
    IF ~is_benchmark(item) THEN st
    ELSE
    LET parts == Split(item.id, "/")
    IN  IF TooFewParts(parts)
        THEN [st EXCEPT !.result = BuildError("MalformedId", item.id)]
        ELSE
        LET table_name == parts[1]
            column_name == parts[2]
            row_name == RowName(parts)
            tbls == get_table(st.tables, table_name)
            t == FindName(tbls, table_name, 1)
            time_unit == try_new(item.estimate, item.unit)
        IN  IF ~time_unit.ok
            THEN [st EXCEPT !.tables = tbls,
                            !.result = BuildError("UnrecognizedTimeUnit", time_unit.err)]
            ELSE
            LET pos == next_idx(st.col_pos, row_name)
                idx == pos[row_name]
                added == add_column_data(tbls[t], idx, column_name, row_name,
                                         time_unit.val)
            IN  [tables |-> [tbls EXCEPT ![t] = added.table],
                 col_pos |-> pos,
                 result |-> CASE added.status = "Ok" -> st.result
                              [] added.status = "Duplicate" ->
                                    BuildError("DuplicateColumn", column_name)
                              [] added.status = "Panic" -> Panicked]

(***************************************************************************)
(* TablesConfig                                                            *)
(***************************************************************************)
\* Option<FlexStr>
NoText == [some |-> FALSE, val |-> <<>>]

\* TablesConfig::default
DefaultConfig == [comments |-> NoText, table_comments |-> [k \in {} |-> <<>>]]

\* HashMap::get
MapGet(map, key) == IF key \in DOMAIN map THEN Some(map[key]) ELSE NoText

UpperCase == <<"A", "B", "C", "D", "E", "F", "G", "H", "I", "J", "K", 
               "L", "M", "N", "O", "P", "Q", "R", "S", "T", 
               "U", "V", "W", "X", "Y", "Z">>
LowerCase == <<"a", "b", "c", "d", "e", "f", "g", "h", "i", "j", "k", 
               "l", "m", "n", "o", "p", "q", "r", "s", "t", 
               "u", "v", "w", "x", "y", "z">>

\* char::to_lowercase on the letters A-Z
RECURSIVE LowerOf(_, _)
LowerOf(ch, i) ==
    IF i > Len(UpperCase) THEN ch
    ELSE IF UpperCase[i] = ch THEN LowerCase[i]
    ELSE LowerOf(ch, i + 1)

\* str::replace(' ', with) followed by to_lower
ReplaceSpaceAndLower(s, with) ==
    [i \in 1..Len(s) |-> IF s[i] = " " THEN with ELSE LowerOf(s[i], 1)]

\* CriterionTableData::encode_key that only lowercases
encode_key_keep_spaces(s) == ReplaceSpaceAndLower(s, " ")

\* CriterionTableData::encode_key
encode_key(s) == ReplaceSpaceAndLower(s, "_")

\* TablesConfig::try_load_config: file.content is "Unreadable" when
\* read_to_string fails, "Malformed" when toml::from_str fails, else "Toml"
try_load_config(file) ==
    IF file.content = "Toml" THEN [ok |-> TRUE, config |-> file.config, err |-> ""]
    ELSE IF file.content = "Unreadable"
         THEN [ok |-> FALSE, config |-> DefaultConfig, err |-> "Io"]
         ELSE [ok |-> FALSE, config |-> DefaultConfig, err |-> "Toml"]

\* load_config that treats every failure to open the file as a missing file
load_config_any_open_error(file) ==
    IF file.open = "Ok" THEN try_load_config(file)
    ELSE [ok |-> TRUE, config |-> DefaultConfig, err |-> ""]

\* load_config: file.open is the outcome of File::open
load_config(file) ==
    IF file.open = "Ok" THEN try_load_config(file)
    ELSE IF file.open = "NotFound"
         THEN [ok |-> TRUE, config |-> DefaultConfig, err |-> ""]
         ELSE [ok |-> FALSE, config |-> DefaultConfig, err |-> "Io"]

(***************************************************************************)
(* GFMFormatter                                                            *)
(***************************************************************************)
\* "**``**".len()
FIRST_COL_EXTRA_WIDTH == 6
\* "() ``****XX".len()
USED_EXTRA_WIDTH == 11

CT_URL ==
    <<"h", "t", "t", "p", "s", ":", "/", "/", "g", "i", "t", "h", "u", 
          "b", ".", "c", "o", "m", "/", "n", "u", "1", "1", "p", "t", 
          "r", "/", "c", "r", "i", "t", "e", "r", "i", "o", "n", "-", 
          "t", "a", "b", "l", "e">>

\* the backtick, the check mark and the cross mark, one char each
BackTick == "U+0060"
CheckMark == "U+2705"
CrossMark == "U+274C"

RECURSIVE Flatten(_)
Flatten(seqs) == IF seqs = <<>> THEN <<>> ELSE Head(seqs) \o Flatten(Tail(seqs))

\* GFMFormatter::pad: remaining + 1 times ch; ok is FALSE when the usize
\* subtraction max_width - written underflows
GFM_pad(ch, max_width, written) ==
    [ok |-> written <= max_width,
     max_width |-> max_width,
     written |-> written,
     text |-> IF written <= max_width
              THEN [i \in 1..(max_width - written + 1) |-> ch]
              ELSE <<>>]

\* what a Formatter method did: the text pushed to the buffer and its calls of pad
Wrote(text, pads) == [text |-> text, pads |-> pads]

\* GFMFormatter::encode_link
encode_link(s) == ReplaceSpaceAndLower(s, "-")

\* GFMFormatter::start
GFM_start(comment, table_names) ==
    Wrote(<<"#", " ", "B", "e", "n", "c", "h", "m", "a", "r", "k", "s", "\n", "\n">>
          \o (IF comment.some THEN comment.val \o <<"\n">> ELSE <<>>)
          \o Flatten([i \in 1..Len(table_names) |->
                        <<"-", " ", "[">> \o table_names[i] \o <<"]", "(", "#">>
                        \o encode_link(table_names[i]) \o <<")", "\n">>])
          \o <<"\n">>,
          <<>>)

\* GFMFormatter::end
GFM_end ==
    Wrote(<<"M", "a", "d", "e", " ", "w", "i", "t", "h", " ", "[", "c", 
                      "r", "i", "t", "e", "r", "i", "o", "n", "-", "t", 
                      "a", "b", "l", "e", "]", "(">>
          \o CT_URL \o <<")", "\n">>,
          <<>>)

\* GFMFormatter::start_table
GFM_start_table(name, comment, columns) ==
    LET first_col_max_width == columns[1].max_width + FIRST_COL_EXTRA_WIDTH
        first_head == GFM_pad(" ", first_col_max_width, 0)
        first_delim == GFM_pad("-", first_col_max_width, 0)
        head_pad(i) == GFM_pad(" ", columns[i].max_width + USED_EXTRA_WIDTH,
                               CharCount(columns[i].name) + 2)
        delim_pad(i) == GFM_pad("-", columns[i].max_width + USED_EXTRA_WIDTH, 0)
    IN  Wrote(<<"#", "#", " ">> \o name \o <<"\n", "\n">>
              \o (IF comment.some THEN comment.val \o <<"\n">> ELSE <<>>)
              \o <<"|", " ">> \o first_head.text
              \o Flatten([k \in 1..(Len(columns) - 1) |->
                            <<"|", " ", BackTick>> \o columns[k + 1].name \o <<BackTick>>
                            \o head_pad(k + 1).text])
              \o <<" ", "|", "\n">>
              \o <<"|", ":">> \o first_delim.text
              \o Flatten([k \in 1..(Len(columns) - 1) |->
                            <<"|", ":">> \o delim_pad(k + 1).text])
              \o <<" ", "|", "\n">>,
              <<first_head>> \o [k \in 1..(Len(columns) - 1) |-> head_pad(k + 1)]
              \o <<first_delim>> \o [k \in 1..(Len(columns) - 1) |-> delim_pad(k + 1)])

\* GFMFormatter::end_table
GFM_end_table == Wrote(<<"\n">>, <<>>)

\* GFMFormatter::start_row
GFM_start_row(name, max_width) ==
    LET written == IF name # <<>> THEN CharCount(name) + FIRST_COL_EXTRA_WIDTH ELSE 0
        padding == GFM_pad(" ", max_width + FIRST_COL_EXTRA_WIDTH, written)
    IN  Wrote((IF name # <<>>
               THEN <<"|", " ", "*", "*", BackTick>> \o name \o <<BackTick, "*", "*">>
               ELSE <<"|", " ">>)
              \o padding.text,
              <<padding>>)

\* GFMFormatter::end_row
GFM_end_row == Wrote(<<" ", "|", "\n">>, <<>>)

\* the text of a used cell without marker and emphasis whatever the comparison
UsedDataUnmarked(time, compare) ==
    <<BackTick>> \o TimeUnit_to_flex_str(time) \o <<BackTick, " ", "(">>
    \o Comparison_to_flex_str(compare) \o <<")">>

\* the text of a used cell
UsedData(time, compare) ==
    LET time_str == TimeUnit_to_flex_str(time)
        speedup_str == Comparison_to_flex_str(compare)
    IN  IF Contains(speedup_str, <<"f", "a", "s", "t", "e", "r">>)
        THEN <<BackTick>> \o time_str \o <<BackTick, " ", "(", CheckMark, " ", "*", "*">>
             \o speedup_str \o <<"*", "*", ")">>
        ELSE IF Contains(speedup_str, <<"s", "l", "o", "w", "e", "r">>)
        THEN <<BackTick>> \o time_str \o <<BackTick, " ", "(", CrossMark, " ", "*">>
             \o speedup_str \o <<"*", ")">>
        ELSE <<BackTick>> \o time_str \o <<BackTick, " ", "(">> \o speedup_str \o <<")">>

\* GFMFormatter::used_column measuring data in bytes (str::len): the marks
\* are three bytes each in UTF-8
GFM_used_column_bytes(time, compare, max_width) ==
    LET data == UsedData(time, compare)
        marks == Cardinality({i \in 1..Len(data) : data[i] \in {CheckMark, CrossMark}})
        padding == GFM_pad(" ", max_width + USED_EXTRA_WIDTH, Len(data) + 2 * marks)
    IN  Wrote(<<"|", " ">> \o data \o padding.text, <<padding>>)

\* GFMFormatter::used_column
GFM_used_column(time, compare, max_width) ==
    LET data == UsedData(time, compare)
        padding == GFM_pad(" ", max_width + USED_EXTRA_WIDTH, CharCount(data))
    IN  Wrote(<<"|", " ">> \o data \o padding.text, <<padding>>)

\* GFMFormatter::unused_column
GFM_unused_column(max_width) ==
    LET data == <<BackTick, "N", "/", "A", BackTick>>
        padding == GFM_pad(" ", max_width + USED_EXTRA_WIDTH, CharCount(data))
    IN  Wrote(<<"|", " ">> \o data \o padding.text, <<padding>>)

(***************************************************************************)
(* CriterionTableData::make_tables                                         *)
(***************************************************************************)
\* one call of a Formatter method: table and row say where make_tables was
\* (0 outside a table or a row), col which column of col_info the cell is for
Call(op, table, row, col, args, wrote) ==
    [op |-> op, table |-> table, row |-> row, col |-> col, args |-> args,
     text |-> wrote.text, pads |-> wrote.pads]

NoArgs == [name |-> <<>>, comment |-> NoText, time |-> NoTime, pct |-> QOne,
           max_width |-> 0, names |-> <<>>]

\* the match taking the row's data by the column's position, not its name
cell_call_by_position(t, r, c, row, col) ==
    LET k == IF c - 1 <= Len(row.column_data) THEN c - 1 ELSE 0
    IN  IF k > 0
        THEN Call("used_column", t, r, c,
                  [NoArgs EXCEPT !.time = row.column_data[k].time_unit,
                                 !.pct = row.column_data[k].pct,
                                 !.max_width = col.max_width],
                  GFM_used_column(row.column_data[k].time_unit,
                                  row.column_data[k].pct, col.max_width))
        ELSE Call("unused_column", t, r, c,
                  [NoArgs EXCEPT !.max_width = col.max_width],
                  GFM_unused_column(col.max_width))

\* the match on row.column_data.get(&col.name)
cell_call(t, r, c, row, col) ==
    LET k == FindName(row.column_data, col.name, 1)
    IN  IF k > 0
        THEN Call("used_column", t, r, c,
                  [NoArgs EXCEPT !.time = row.column_data[k].time_unit,
                                 !.pct = row.column_data[k].pct,
                                 !.max_width = col.max_width],
                  GFM_used_column(row.column_data[k].time_unit,
                                  row.column_data[k].pct, col.max_width))
        ELSE Call("unused_column", t, r, c,
                  [NoArgs EXCEPT !.max_width = col.max_width],
                  GFM_unused_column(col.max_width))

\* the body of `for row in table.rows.values()` without the call of end_row
row_calls_unclosed(t, r, col_info, row) ==
    <<Call("start_row", t, r, 1,
           [NoArgs EXCEPT !.name = row.name, !.max_width = col_info[1].max_width],
           GFM_start_row(row.name, col_info[1].max_width))>>
    \o [k \in 1..(Len(col_info) - 1) |-> cell_call(t, r, k + 1, row, col_info[k + 1])]

\* the body of `for row in table.rows.values()`
row_calls(t, r, col_info, row) ==
    <<Call("start_row", t, r, 1,
           [NoArgs EXCEPT !.name = row.name, !.max_width = col_info[1].max_width],
           GFM_start_row(row.name, col_info[1].max_width))>>
    \o [k \in 1..(Len(col_info) - 1) |-> cell_call(t, r, k + 1, row, col_info[k + 1])]
    \o <<Call("end_row", t, r, 0, NoArgs, GFM_end_row)>>

\* config.table_comments.get(&Self::encode_key(&table.name))
table_comment(config, name) == MapGet(config.table_comments, encode_key(name))

\* the body of `for table in self.tables.values()`
table_calls(t, table, config) ==
    LET col_info == table.columns
    IN  IF col_info = <<>> THEN <<>>
        ELSE <<Call("start_table", t, 0, 0,
                    [NoArgs EXCEPT !.name = table.name,
                                   !.comment = table_comment(config, table.name),
                                   !.names = [c \in 1..Len(col_info) |-> col_info[c].name]],
                    GFM_start_table(table.name, table_comment(config, table.name),
                                    col_info))>>
             \o Flatten([r \in 1..Len(table.rows) |->
                           row_calls(t, r, col_info, table.rows[r])])
             \o <<Call("end_table", t, 0, 0, NoArgs, GFM_end_table)>>

\* CriterionTableData::make_tables: the calls it makes of the formatter, in order
make_tables(tbls, config) ==
    LET table_names == [t \in 1..Len(tbls) |-> tbls[t].name]
    IN  <<Call("start", 0, 0, 0,
               [NoArgs EXCEPT !.comment = config.comments, !.names = table_names],
               GFM_start(config.comments, table_names))>>
        \o Flatten([t \in 1..Len(tbls) |-> table_calls(t, tbls[t], config)])
        \o <<Call("end", 0, 0, 0, NoArgs, GFM_end)>>

\* the buffer make_tables returns: what the calls pushed, in order
Buffer(cs) == Flatten([i \in 1..Len(cs) |-> cs[i].text])

\* whether a call of pad underflowed while the calls were made
PadUnderflow(cs) ==
    \E i \in 1..Len(cs) : \E j \in 1..Len(cs[i].pads) : ~cs[i].pads[j].ok

(***************************************************************************)
(* The builder's state before a build, and the unit-level state at rest    *)
(***************************************************************************)
\* tables.toml: the outcome of File::open, what reading and parsing it gives
ConfigFile(open, content, toml) ==
    [open |-> open, content |-> content, config |-> toml]

\* load_config has not returned
NotLoaded ==
    [loaded |-> FALSE, file |-> ConfigFile("", "", DefaultConfig),
     ok |-> FALSE, config |-> DefaultConfig, err |-> ""]
\* load_config has returned r for a tables.toml in the given condition
Loaded(file, r) ==
    [loaded |-> TRUE, file |-> file, ok |-> r.ok, config |-> r.config, err |-> r.err]

\* anyhow::Result<String> of build_tables; Unwound is a panic passing through it
NotReturned == [tag |-> "None", kind |-> "", text |-> <<>>]
ReturnedOk(text) == [tag |-> "Ok", kind |-> "", text |-> text]
ReturnedErr(kind) == [tag |-> "Err", kind |-> kind, text |-> <<>>]
Unwound == [tag |-> "Panic", kind |-> "", text |-> <<>>]

\* the process is running
Running == [ended |-> FALSE, stdout |-> <<>>, stderr |-> "", status |-> 0]
Exited(stdout, stderr, status) ==
    [ended |-> TRUE, stdout |-> stdout, stderr |-> stderr, status |-> status]

BuildIdle ==
    /\ input = <<>>
    /\ tables = <<>>
    /\ col_pos = EmptyMap
    /\ result = Building
    /\ cfg = NotLoaded
    /\ calls = <<>>
    /\ returned = NotReturned
    /\ outcome = Running

\* anyhow / serde_json Result of from_reader; Reading while it loops
Reading == [tag |-> "Reading", err |-> ""]
ReadOk == [tag |-> "Ok", err |-> ""]
ReadErr(err) == [tag |-> "Err", err |-> err]

ReadIdle ==
    /\ r_stream = <<>>
    /\ r_cut = FALSE
    /\ r_vec = <<>>
    /\ r_res = Reading

TimeIdle ==
    /\ t_pc = "idle"
    /\ t_time = F(1, 0)
    /\ t_unit = LblS
    /\ t_res = Err(<<>>)
    /\ t_again = Err(<<>>)
    /\ t_ratio = QOne
    /\ t_text = <<>>

(***************************************************************************)
(* f64 as IEEE-754 binary64: [sig |-> the 53 significand bits, most        *)
(* significant first, exp |-> exponent] of value sig * 2^exp.  Division    *)
(* and multiplication round to nearest, ties to even, as the hardware      *)
(* does; the values are positive, normal and far from overflow.            *)
(***************************************************************************)
MANTISSA_DIGITS == 53

B64(sig, exp) == [sig |-> sig, exp |-> exp]

Zeros(n) == [i \in 1..n |-> 0]

\* the natural number n in binary, most significant bit first
RECURSIVE NatBits(_)
NatBits(n) == IF n = 0 THEN <<>> ELSE Append(NatBits(n \div 2), n % 2)

RECURSIVE Strip(_)
Strip(b) == IF b = <<>> \/ b[1] = 1 THEN b ELSE Strip(Tail(b))

\* bits are taken twelve at a time, as limbs in base 4096
PadLeft(b) == Zeros((12 - (Len(b) % 12)) % 12) \o b

Limb(b, o) ==
    b[o + 1] * 2048 + b[o + 2] * 1024 + b[o + 3] * 512 + b[o + 4] * 256
    + b[o + 5] * 128 + b[o + 6] * 64 + b[o + 7] * 32 + b[o + 8] * 16
    + b[o + 9] * 8 + b[o + 10] * 4 + b[o + 11] * 2 + b[o + 12]

Limbs(b) == [j \in 1..(Len(b) \div 12) |-> Limb(b, 12 * (j - 1))]

Bits(l) ==
    [i \in 1..(12 * Len(l)) |->
        (l[(i - 1) \div 12 + 1] \div 2^(11 - ((i - 1) % 12))) % 2]

\* l * c + carry, exactly, for c <= 4096
RECURSIVE MulLimbs(_, _, _)
MulLimbs(l, c, carry) ==
    IF l = <<>> THEN IF carry = 0 THEN <<>> ELSE <<carry>>
    ELSE LET t == l[Len(l)] * c + carry
         IN  Append(MulLimbs(SubSeq(l, 1, Len(l) - 1), c, t \div 4096),
                    t % 4096)

\* quotient and remainder of l by d, by long division, for d <= 4096
RECURSIVE DivLimbs(_, _)
DivLimbs(l, d) ==
    IF l = <<>> THEN [q |-> <<>>, r |-> 0]
    ELSE LET p == DivLimbs(SubSeq(l, 1, Len(l) - 1), d)
             x == p.r * 4096 + l[Len(l)]
         IN  [q |-> Append(p.q, x \div d), r |-> x % d]

\* b * 125^k, exactly
RECURSIVE Mul125(_, _)
Mul125(l, k) == IF k = 0 THEN l ELSE MulLimbs(Mul125(l, k - 1), 125, 0)

MulBits(b, k) == Bits(Mul125(Limbs(PadLeft(b)), k))

DivBits(b, d) ==
    LET p == DivLimbs(Limbs(PadLeft(b)), d)
    IN  [q |-> Bits(p.q), r |-> p.r]

RECURSIVE IncBits(_)
IncBits(b) ==
    IF b = <<>> THEN <<1>>
    ELSE IF b[Len(b)] = 0 THEN Append(SubSeq(b, 1, Len(b) - 1), 1)
    ELSE Append(IncBits(SubSeq(b, 1, Len(b) - 1)), 0)

\* the binary64 nearest to b * 2^exp (plus a nonzero fraction of its last bit
\* when sticky), ties to even; b has no leading zero
RoundToNearest(b, exp, sticky) ==
    LET n == Len(b)
    IN  IF n <= MANTISSA_DIGITS
        THEN B64(b \o Zeros(MANTISSA_DIGITS - n), exp - (MANTISSA_DIGITS - n))
        ELSE LET head == SubSeq(b, 1, MANTISSA_DIGITS)
                 guard == b[MANTISSA_DIGITS + 1]
                 rest == sticky \/ \E i \in (MANTISSA_DIGITS + 2)..n : b[i] = 1
                 up == guard = 1 /\ (rest \/ head[MANTISSA_DIGITS] = 1)
                 sig == IF up THEN IncBits(head) ELSE head
                 e == exp + (n - MANTISSA_DIGITS)
             IN  IF Len(sig) > MANTISSA_DIGITS
                 THEN B64(SubSeq(sig, 1, MANTISSA_DIGITS), e + 1)
                 ELSE B64(sig, e)

\* the f64 a decimal literal n / 10^k denotes
FromDec(n, k) ==
    LET d == DivBits(NatBits(n) \o Zeros(70), 10^k)
    IN  RoundToNearest(Strip(d.q), -70, d.r # 0)

RECURSIVE BitsGt(_, _)
BitsGt(a, b) ==
    IF a = <<>> THEN FALSE
    ELSE IF a[1] # b[1] THEN a[1] > b[1]
    ELSE BitsGt(Tail(a), Tail(b))

\* a > b
f64_gt(a, b) == a.exp > b.exp \/ (a.exp = b.exp /\ BitsGt(a.sig, b.sig))

\* a / 1000.0, with 1000 = 125 * 2^3
f64_div_1000(a) ==
    LET d == DivBits(a.sig \o Zeros(10), 125)
    IN  RoundToNearest(Strip(d.q), a.exp - 13, d.r # 0)

\* a * 1000.0^k, with 1000^k = 125^k * 2^(3k)
f64_mul_1000(a, k) ==
    RoundToNearest(Strip(MulBits(a.sig, k)), a.exp + 3 * k, FALSE)

\* the next f64 above a
NextUp(a) ==
    LET sig == IncBits(a.sig)
    IN  IF Len(sig) > MANTISSA_DIGITS
        THEN B64(SubSeq(sig, 1, MANTISSA_DIGITS), a.exp + 1)
        ELSE B64(sig, a.exp)

Thousand64 == FromDec(1000, 0)

\* TimeUnit::as_picoseconds with every unit given the factor of the next
as_picoseconds_shifted(tu) ==
    CASE tu.unit = "Second" -> f64_mul_1000(tu.time, 4)
      [] tu.unit = "Millisecond" -> f64_mul_1000(tu.time, 4)
      [] tu.unit = "Microsecond" -> f64_mul_1000(tu.time, 3)
      [] tu.unit = "Nanosecond" -> f64_mul_1000(tu.time, 2)
      [] tu.unit = "Picosecond" -> f64_mul_1000(tu.time, 1)

\* TimeUnit::try_new in binary64
RECURSIVE TimeUnit_try_new(_, _)
TimeUnit_try_new(time, unit) ==
    IF unit = LblMs /\ f64_gt(time, Thousand64)
    THEN TimeUnit_try_new(f64_div_1000(time), LblS)
    ELSE IF unit = LblUs /\ f64_gt(time, Thousand64)
    THEN TimeUnit_try_new(f64_div_1000(time), LblMs)
    ELSE IF unit = LblNs /\ f64_gt(time, Thousand64)
    THEN TimeUnit_try_new(f64_div_1000(time), LblUs)
    ELSE IF unit = LblPs /\ f64_gt(time, Thousand64)
    THEN TimeUnit_try_new(f64_div_1000(time), LblNs)
    ELSE IF unit = LblS THEN Ok(TimeUnit("Second", time))
    ELSE IF unit = LblMs THEN Ok(TimeUnit("Millisecond", time))
    ELSE IF unit = LblUs THEN Ok(TimeUnit("Microsecond", time))
    ELSE IF unit = LblNs THEN Ok(TimeUnit("Nanosecond", time))
    ELSE IF unit = LblPs THEN Ok(TimeUnit("Picosecond", time))
    ELSE Err(unit)

\* TimeUnit::as_picoseconds in binary64
TimeUnit_as_picoseconds(tu) ==
    CASE tu.unit = "Second" -> f64_mul_1000(tu.time, 4)
      [] tu.unit = "Millisecond" -> f64_mul_1000(tu.time, 3)
      [] tu.unit = "Microsecond" -> f64_mul_1000(tu.time, 2)
      [] tu.unit = "Nanosecond" -> f64_mul_1000(tu.time, 1)
      [] tu.unit = "Picosecond" -> tu.time

FloatIdle ==
    /\ f_pc = "idle"
    /\ f_time = Thousand64
    /\ f_unit = LblS
    /\ f_res = Err(<<>>)
    /\ f_ps = Thousand64
    /\ f_direct = Thousand64

(***************************************************************************)
(* TimeSpec: TimeUnit::try_new and Comparison rendering on drawn inputs    *)
(***************************************************************************)
Mantissas == {1, 12, 999, 1000, 1001, 2500}
TimeInputs == {F(m, e) : m \in Mantissas, e \in (-1)..MaxExp}
RecognizedLabels == {LblS, LblMs, LblUs, LblNs, LblPs}
UnitLabels == RecognizedLabels \cup {<<"x", "s">>, <<>>, <<"S">>, <<"s", "e", "c">>}
Ratios == {Q(n, d, 0) : n \in 1..MaxRatioTerm, d \in 1..MaxRatioTerm}

TimeInit ==
    /\ BuildIdle
    /\ ReadIdle
    /\ FloatIdle
    /\ t_res = Err(<<>>)
    /\ t_again = Err(<<>>)
    /\ t_text = <<>>
    /\ \/ /\ t_pc = "time"
          /\ t_time \in TimeInputs
          /\ t_unit \in UnitLabels
          /\ t_ratio = QOne
       \/ /\ t_pc = "cmp"
          /\ t_time = F(1, 0)
          /\ t_unit = LblS
          /\ t_ratio \in Ratios

\* parse(magnitude, unit_label)
Parse ==
    /\ t_pc = "time"
    /\ t_res' = try_new(t_time, t_unit)
    /\ t_pc' = "parsed"
    /\ UNCHANGED <<t_time, t_unit, t_again, t_ratio, t_text>>
    /\ UNCHANGED buildVars
    /\ UNCHANGED readVars
    /\ UNCHANGED floatVars

\* parse of the magnitude and unit of the measurement parse returned
Reparse ==
    /\ t_pc = "parsed"
    /\ t_res.ok
    /\ t_again' = try_new(t_res.val.time, Suffix(t_res.val))
    /\ t_pc' = "reparsed"
    /\ UNCHANGED <<t_time, t_unit, t_res, t_ratio, t_text>>
    /\ UNCHANGED buildVars
    /\ UNCHANGED readVars
    /\ UNCHANGED floatVars

\* Comparison(t_ratio).to_flex_str()
Render ==
    /\ t_pc = "cmp"
    /\ t_text' = Comparison_to_flex_str(t_ratio)
    /\ t_pc' = "rendered"
    /\ UNCHANGED <<t_time, t_unit, t_res, t_again, t_ratio>>
    /\ UNCHANGED buildVars
    /\ UNCHANGED readVars
    /\ UNCHANGED floatVars

TimeNext == Parse \/ Reparse \/ Render

TimeSpec == TimeInit /\ [][TimeNext]_vars

(***************************************************************************)
(* FloatSpec: TimeUnit::try_new and as_picoseconds in binary64             *)
(***************************************************************************)
MaxDecimals == 1

Numerators == {1, 120, 1000, 1001, 10011, 15000, 25007, 30003, 4195221,
               12345678}
FloatInputs == {FromDec(n, k) : n \in Numerators, k \in 0..MaxDecimals}
FloatLabels == RecognizedLabels \cup {<<"x", "s">>}

\* the TimeUnit the label names, holding the magnitude as given
Unpromoted(time, unit) ==
    CASE unit = LblS -> TimeUnit("Second", time)
      [] unit = LblMs -> TimeUnit("Millisecond", time)
      [] unit = LblUs -> TimeUnit("Microsecond", time)
      [] unit = LblNs -> TimeUnit("Nanosecond", time)
      [] unit = LblPs -> TimeUnit("Picosecond", time)

FloatInit ==
    /\ BuildIdle
    /\ TimeIdle
    /\ ReadIdle
    /\ f_pc = "time"
    /\ f_time \in FloatInputs
    /\ f_unit \in FloatLabels
    /\ f_res = Err(<<>>)
    /\ f_ps = Thousand64
    /\ f_direct = Thousand64

\* TimeUnit::try_new(f_time, f_unit)
ParseFloat ==
    /\ f_pc = "time"
    /\ f_res' = TimeUnit_try_new(f_time, f_unit)
    /\ f_pc' = "parsed"
    /\ UNCHANGED <<f_time, f_unit, f_ps, f_direct>>
    /\ UNCHANGED buildVars
    /\ UNCHANGED timeVars
    /\ UNCHANGED readVars

\* as_picoseconds of the parsed measurement, and of the input as it was given
Picoseconds ==
    /\ f_pc = "parsed"
    /\ f_res.ok
    /\ f_ps' = TimeUnit_as_picoseconds(f_res.val)
    /\ f_direct' = TimeUnit_as_picoseconds(Unpromoted(f_time, f_unit))
    /\ f_pc' = "measured"
    /\ UNCHANGED <<f_time, f_unit, f_res>>
    /\ UNCHANGED buildVars
    /\ UNCHANGED timeVars
    /\ UNCHANGED readVars

FloatNext == ParseFloat \/ Picoseconds

FloatSpec == FloatInit /\ [][FloatNext]_vars

(***************************************************************************)
(* ReadSpec: RawCriterionData::from_reader over the values of a reader     *)
(***************************************************************************)
\* what the reader holds, value by value: a benchmark record, a group record,
\* a JSON value that is neither, or text that is not JSON
ValueKinds == {"Benchmark", "BenchmarkGroup", "Other", "NotJson"}

RECURSIVE Streams(_)
Streams(n) ==
    IF n = 0 THEN {<<>>}
    ELSE Streams(n - 1)
         \cup {Append(st, k) : st \in {x \in Streams(n - 1) : Len(x) = n - 1},
                               k \in ValueKinds}

\* RawCriterionData::deserialize on the next value of the reader: the untagged
\* enum matches a benchmark or a group record; a value that ends with the
\* reader before its own end is an EOF error of serde_json, as is the end of
\* the reader itself
deserialize(stream, cut, pos) ==
    IF pos > Len(stream) THEN ReadErr("Eof")
    ELSE IF stream[pos] = "NotJson" THEN ReadErr("Syntax")
    ELSE IF cut /\ pos = Len(stream) THEN ReadErr("Eof")
    ELSE IF stream[pos] \in {"Benchmark", "BenchmarkGroup"} THEN ReadOk
    ELSE ReadErr("Data")

\* serde_json::Error::is_eof
is_eof(res) == res.err = "Eof"

ReadInit ==
    /\ BuildIdle
    /\ TimeIdle
    /\ FloatIdle
    /\ r_stream \in Streams(MaxStream)
    /\ r_cut \in BOOLEAN
    /\ r_cut => r_stream # <<>>
    /\ r_vec = <<>>
    /\ r_res = Reading

\* from_reader's loop: Ok(data) => data_vec.push(data)
PushData ==
    /\ r_res = Reading
    /\ deserialize(r_stream, r_cut, Len(r_vec) + 1) = ReadOk
    /\ r_vec' = Append(r_vec, r_stream[Len(r_vec) + 1])
    /\ UNCHANGED <<r_stream, r_cut, r_res>>
    /\ UNCHANGED buildVars
    /\ UNCHANGED timeVars
    /\ UNCHANGED floatVars

\* from_reader's loop: Err(err) if err.is_eof() => break, then Ok(data_vec)
BreakAtEof ==
    /\ r_res = Reading
    /\ deserialize(r_stream, r_cut, Len(r_vec) + 1).tag = "Err"
    /\ is_eof(deserialize(r_stream, r_cut, Len(r_vec) + 1))
    /\ r_res' = ReadOk
    /\ UNCHANGED <<r_stream, r_cut, r_vec>>
    /\ UNCHANGED buildVars
    /\ UNCHANGED timeVars
    /\ UNCHANGED floatVars

\* from_reader's loop: Err(err) => return Err(err)
ReturnErr ==
    /\ r_res = Reading
    /\ deserialize(r_stream, r_cut, Len(r_vec) + 1).tag = "Err"
    /\ ~is_eof(deserialize(r_stream, r_cut, Len(r_vec) + 1))
    /\ r_res' = deserialize(r_stream, r_cut, Len(r_vec) + 1)
    /\ UNCHANGED <<r_stream, r_cut, r_vec>>
    /\ UNCHANGED buildVars
    /\ UNCHANGED timeVars
    /\ UNCHANGED floatVars

ReadNext == PushData \/ BreakAtEof \/ ReturnErr

ReadSpec == ReadInit /\ [][ReadNext]_vars

(***************************************************************************)
(* Spec: build_tables and main over the records from_reader returned        *)
(***************************************************************************)
Fib == <<"F", "i", "b">>
MyT == <<"M", "y", " ", "T">>
Recursive == <<"R", "e", "c", "u", "r", "s", "i", "v", "e">>
Iterative == <<"I", "t", "e", "r", "a", "t", "i", "v", "e">>
Memoized == <<"R", "e", "c", "u", "r", "s", "i", "v", "e", "_",
              "m", "e", "m", "o", "i", "z", "e", "d">>
Row10 == <<"1", "0">>
Row200 == <<"2", "0", "0">>

\* BenchmarkId: the segments joined by '/'
RECURSIVE Join(_)
Join(segs) == IF Len(segs) = 1 THEN segs[1]
              ELSE segs[1] \o <<"/">> \o Join(Tail(segs))

\* RawCriterionData::Benchmark with the fields the build reads
Benchmark(id, estimate, unit) ==
    [kind |-> "Benchmark", id |-> id, estimate |-> estimate, unit |-> unit]
\* RawCriterionData::BenchmarkGroup
BenchmarkGroup(name) ==
    [kind |-> "BenchmarkGroup", id |-> name, estimate |-> F(1, 0), unit |-> <<>>]

Records ==
    { Benchmark(Join(<<Fib, Recursive, Row10>>), F(120, 0), LblNs),
      Benchmark(Join(<<Fib, Iterative, Row10>>), F(12, 0), LblNs),
      Benchmark(Join(<<Fib, Iterative, Row200>>), F(1500, 0), LblNs),
      Benchmark(Join(<<Fib, Recursive, Row200>>), F(2, 0), LblMs),
      Benchmark(Join(<<Fib, Memoized, Row10>>), F(240, 0), LblUs),
      Benchmark(Join(<<Fib, <<>>, Row10>>), F(120, 0), LblNs),
      Benchmark(Join(<<Fib, Recursive>>), F(1, -1), LblS),
      Benchmark(Join(<<MyT, Recursive, Row10>>), F(12, 0), LblNs),
      Benchmark(Join(<<MyT, Iterative>>), F(12, 0), LblNs),
      Benchmark(Join(<<Fib, Iterative>>), F(12, 0), LblNs),
      Benchmark(Fib, F(120, 0), LblNs),
      Benchmark(Join(<<Fib, Recursive, Row10>>), F(120, 0), <<"x", "s">>),
      Benchmark(Join(<<Fib, Iterative, Row10>>), F(5000, 0), <<>>),
      BenchmarkGroup(Fib) }

Init ==
    /\ BuildIdle
    /\ TimeIdle
    /\ ReadIdle
    /\ FloatIdle

\* CriterionTableData::build_from_raw_data: the loop over raw_data, left at
\* the first error or panic
RECURSIVE build_from_raw_data(_, _)
build_from_raw_data(st, raw_data) ==
    IF raw_data = <<>> \/ st.result # Building THEN st
    ELSE build_from_raw_data(build_item(st, Head(raw_data)), Tail(raw_data))

\* CriterionTableData::from_raw
from_raw(raw_data) ==
    LET data == build_from_raw_data([tables |-> <<>>, col_pos |-> EmptyMap,
                                     result |-> Building], raw_data)
    IN  IF data.result = Building THEN [data EXCEPT !.result = Built] ELSE data

\* build_tables from the Vec from_reader returned and what load_config finds
build_tables(raw_data, loaded) ==
    LET data == from_raw(raw_data)
        cs == make_tables(data.tables, loaded.config)
    IN  IF data.result.tag = "Err" THEN ReturnedErr(data.result.kind)
        ELSE IF data.result.tag = "Panic" THEN Unwound
        ELSE IF ~loaded.ok THEN ReturnedErr(loaded.err)
        ELSE IF PadUnderflow(cs) THEN Unwound
        ELSE ReturnedOk(Buffer(cs))

\* `?` on a result that lets every finished build through
ProceedsOnErr(res) == res.tag \in {"Ok", "Err"}

\* `?` on the result of from_raw: build_tables goes on with Ok(data) only
Proceeds(res) == res.tag = "Ok"

\* RawCriterionData::from_reader returns Err: the `?` returns it from build_tables
ReadError ==
    /\ result = Building
    /\ input = <<>>
    /\ returned = NotReturned
    /\ returned' = ReturnedErr("Json")
    /\ UNCHANGED <<input, tables, col_pos, result, cfg, calls, outcome>>
    /\ UNCHANGED timeVars
    /\ UNCHANGED readVars
    /\ UNCHANGED floatVars

\* build_from_raw_data consumes the next record of raw_data
ProcessRecord ==
    /\ result = Building
    /\ returned = NotReturned
    /\ Len(input) < MaxRecords
    /\ \E item \in Records :
         LET st == build_item([tables |-> tables, col_pos |-> col_pos,
                               result |-> result], item)
         IN  /\ input' = Append(input, item)
             /\ tables' = st.tables
             /\ col_pos' = st.col_pos
             /\ result' = st.result
    /\ UNCHANGED <<cfg, calls, returned, outcome>>
    /\ UNCHANGED timeVars
    /\ UNCHANGED readVars
    /\ UNCHANGED floatVars

\* raw_data is exhausted: build_from_raw_data returns Ok(()), from_raw Ok(data)
Finish ==
    /\ result = Building
    /\ returned = NotReturned
    /\ result' = Built
    /\ UNCHANGED <<input, tables, col_pos, cfg, calls, returned, outcome>>
    /\ UNCHANGED timeVars
    /\ UNCHANGED readVars
    /\ UNCHANGED floatVars

\* from_raw did not return Ok(data): `?` returns its error from build_tables,
\* dropping data; a panic unwinds through build_tables
FromRawFails ==
    /\ result # Building
    /\ ~Proceeds(result)
    /\ returned = NotReturned
    /\ returned' = IF result.tag = "Err" THEN ReturnedErr(result.kind) ELSE Unwound
    /\ UNCHANGED <<input, tables, col_pos, result, cfg, calls, outcome>>
    /\ UNCHANGED timeVars
    /\ UNCHANGED readVars
    /\ UNCHANGED floatVars

\* tables.toml as build_tables may find it
TopComment == <<"T", "o", "p">>
FibComment == <<"F", "c">>
MyTComment == <<"M", "c">>
FibKey == <<"f", "i", "b">>
MyTKey == <<"m", "y", "_", "t">>
CommentsConfig ==
    [comments |-> Some(TopComment),
     table_comments |-> [k \in {FibKey, MyTKey} |->
                           IF k = FibKey THEN FibComment ELSE MyTComment]]
ConfigFiles ==
    { ConfigFile("NotFound", "", DefaultConfig),
      ConfigFile("PermissionDenied", "", DefaultConfig),
      ConfigFile("Ok", "Malformed", DefaultConfig),
      ConfigFile("Ok", "Toml", CommentsConfig) }

\* whether build_tables goes on to the next step after a step returning res
Continues(res) == res.ok

\* build_tables after from_raw returned Ok: load_config(cfg_name)?
LoadConfig ==
    /\ result # Building
    /\ Proceeds(result)
    /\ cfg = NotLoaded
    /\ returned = NotReturned
    /\ \E file \in ConfigFiles :
         LET r == load_config(file)
         IN  /\ cfg' = Loaded(file, r)
             /\ returned' = IF Continues(r) THEN NotReturned ELSE ReturnedErr(r.err)
    /\ UNCHANGED <<input, tables, col_pos, result, calls, outcome>>
    /\ UNCHANGED timeVars
    /\ UNCHANGED readVars
    /\ UNCHANGED floatVars

\* make_tables visiting the tables in the order a HashMap would yield them
MakeTablesAnyOrder ==
    /\ cfg.loaded
    /\ returned = NotReturned
    /\ \E p \in Permutations(DOMAIN tables) :
         calls' = make_tables([t \in DOMAIN tables |-> tables[p[t]]], cfg.config)
    /\ returned' = IF PadUnderflow(calls') THEN Unwound ELSE ReturnedOk(Buffer(calls'))
    /\ UNCHANGED <<input, tables, col_pos, result, cfg, outcome>>
    /\ UNCHANGED timeVars
    /\ UNCHANGED readVars
    /\ UNCHANGED floatVars

\* build_tables after load_config returned Ok: Ok(data.make_tables(fmt, &config))
MakeTables ==
    /\ cfg.loaded
    /\ returned = NotReturned
    /\ calls' = make_tables(tables, cfg.config)
    /\ returned' = IF PadUnderflow(calls') THEN Unwound ELSE ReturnedOk(Buffer(calls'))
    /\ UNCHANGED <<input, tables, col_pos, result, cfg, outcome>>
    /\ UNCHANGED timeVars
    /\ UNCHANGED readVars
    /\ UNCHANGED floatVars

\* main: println! of the report or eprintln! of the error, then main returns;
\* a panic ends the process with the panic message and status 101
Main ==
    /\ returned # NotReturned
    /\ ~outcome.ended
    /\ outcome' = IF returned.tag = "Ok"
                  THEN Exited(returned.text \o <<"\n">>, "", 0)
                  ELSE IF returned.tag = "Err"
                  THEN Exited(<<>>, returned.kind, 0)
                  ELSE Exited(<<>>, "panicked", 101)
    /\ UNCHANGED <<input, tables, col_pos, result, cfg, calls, returned>>
    /\ UNCHANGED timeVars
    /\ UNCHANGED readVars
    /\ UNCHANGED floatVars

Next ==
    \/ ReadError
    \/ ProcessRecord
    \/ Finish
    \/ FromRawFails
    \/ LoadConfig
    \/ MakeTables
    \/ Main

Spec == Init /\ [][Next]_vars

(***************************************************************************)
(* What the claims speak of                                                *)
(***************************************************************************)
\* number of '/'-separated segments of an id, counted from its separators
SegmentCount(id) == 1 + Cardinality({i \in 1..Len(id) : id[i] = "/"})

IsBenchmark(item) == item.kind = "Benchmark"
WellFormedId(item) == IsBenchmark(item) /\ SegmentCount(item.id) >= 2

\* the table, column and row a record with a well-formed id resolves to
TableOf(item) == Split(item.id, "/")[1]
ColumnOf(item) == Split(item.id, "/")[2]
RowOf(item) == IF SegmentCount(item.id) > 2 THEN Split(item.id, "/")[3] ELSE <<>>
TripleOf(item) == <<TableOf(item), ColumnOf(item), RowOf(item)>>

LastInput == input[Len(input)]

BuildErrorKinds == {"MalformedId", "UnrecognizedTimeUnit", "DuplicateColumn"}

\* the positions of a sequence
Positions(seq) == 1..Len(seq)

\* C1: for every input, from_raw returns a TableSet or one of the three build
\* errors and never aborts in another way (no out-of-range insertion into a
\* table's column list).
C1_BuildNeverAborts ==
    /\ result.tag \in {"Building", "Ok", "Err"}
    /\ result.tag = "Err" => result.kind \in BuildErrorKinds

\* C2: a benchmark record makes the build fail with the malformed-id error
\* naming its id exactly when the id has fewer than two '/'-separated segments.
C2_MalformedIffFewerThanTwoSegments ==
    /\ \A i \in Positions(input) :
         IsBenchmark(input[i]) =>
           ( (i = Len(input) /\ result = BuildError("MalformedId", input[i].id))
             <=> SegmentCount(input[i].id) < 2 )
    /\ result.kind = "MalformedId" =>
         /\ input # <<>>
         /\ IsBenchmark(LastInput)
         /\ result.arg = LastInput.id

C2_Witness ==
    /\ Len(input) = 2
    /\ LastInput.id = Fib
    /\ result = BuildError("MalformedId", Fib)

\* no row of any table holds two columns of the same name
NoDuplicateColumnInAnyRow ==
    \A t \in Positions(tables) : \A r \in Positions(tables[t].rows) :
      LET cd == tables[t].rows[r].column_data
      IN  \A a, b \in Positions(cd) : cd[a].name = cd[b].name => a = b

\* record i resolves to the triple an earlier record has recorded
RepeatsTriple(i) ==
    /\ WellFormedId(input[i])
    /\ \E j \in 1..(i - 1) :
         WellFormedId(input[j]) /\ TripleOf(input[j]) = TripleOf(input[i])

\* C3 as stated: no row ever holds two columns of one name, and every record
\* that repeats a recorded triple fails the build with the duplicate-column
\* error.
C3_DuplicateAlwaysDuplicateError ==
    /\ NoDuplicateColumnInAnyRow
    /\ \A i \in Positions(input) :
         RepeatsTriple(i) =>
           /\ i = Len(input)
           /\ result = BuildError("DuplicateColumn", ColumnOf(input[i]))

\* C3 amended: no row ever holds two columns of one name; a record that
\* repeats a recorded triple always fails the build, with the
\* duplicate-column error when its unit label is recognized and with the
\* unrecognized-unit error (raised first) when it is not.
C3_DuplicateIsAnError ==
    /\ NoDuplicateColumnInAnyRow
    /\ \A i \in Positions(input) :
         RepeatsTriple(i) =>
           /\ i = Len(input)
           /\ IF input[i].unit \in RecognizedLabels
              THEN result = BuildError("DuplicateColumn", ColumnOf(input[i]))
              ELSE result = BuildError("UnrecognizedTimeUnit", input[i].unit)

C3_Witness ==
    /\ Len(input) = 3
    /\ RepeatsTriple(3)
    /\ result = BuildError("DuplicateColumn", Iterative)

\* C4: try_new succeeds exactly on the labels s, ms, us, ns, ps; on any other
\* label it fails naming the label, and the build fails with that error.
C4_UnitRecognition ==
    \A i \in Positions(input) :
      WellFormedId(input[i]) =>
        LET parsed == try_new(input[i].estimate, input[i].unit)
        IN  /\ parsed.ok <=> input[i].unit \in RecognizedLabels
            /\ ~parsed.ok => parsed.err = input[i].unit
            /\ (i = Len(input) /\ result.kind = "UnrecognizedTimeUnit")
                 <=> input[i].unit \notin RecognizedLabels
            /\ input[i].unit \notin RecognizedLabels =>
                 result = BuildError("UnrecognizedTimeUnit", input[i].unit)

C4_Witness ==
    /\ Len(input) = 2
    /\ FGt(LastInput.estimate, Thousand)
    /\ result = BuildError("UnrecognizedTimeUnit", <<>>)

\* rank of a unit: the number of promotions from picoseconds
LabelRank(label) ==
    CASE label = LblS -> 4 [] label = LblMs -> 3 [] label = LblUs -> 2
      [] label = LblNs -> 1 [] label = LblPs -> 0
UnitRank(tu) == LabelRank(Suffix(tu))

\* number of promotions parse applied to its input
Promotions == UnitRank(t_res.val) - LabelRank(t_unit)

\* C5: the measurement parse returns is in seconds or has magnitude <= 1000;
\* it is the input divided by 1000 once per unit promoted, promoted only while
\* the magnitude was above 1000, so a magnitude of exactly 1000 is kept.
C5_NormalizedMagnitude ==
    (t_pc \in {"parsed", "reparsed"} /\ t_res.ok) =>
      /\ t_res.val.unit = "Second" \/ ~FGt(t_res.val.time, Thousand)
      /\ Promotions >= 0
      /\ t_res.val.time = F(t_time.m, t_time.e - Promotions)
      /\ Promotions > 0 => FGt(F(t_time.m, t_time.e - (Promotions - 1)), Thousand)
      /\ FEq(t_time, Thousand) => Promotions = 0

C5_Witness ==
    /\ t_pc = "parsed"
    /\ t_unit = LblPs
    /\ t_res.ok
    /\ t_res.val.unit = "Millisecond"
    /\ FEq(t_res.val.time, Thousand)

\* C6: parsing the magnitude and unit of a parsed measurement again yields the
\* same unit and the same magnitude.
C6_NormalizationIdempotent ==
    t_pc = "reparsed" =>
      /\ t_again.ok
      /\ t_again.val.unit = t_res.val.unit
      /\ FEq(t_again.val.time, t_res.val.time)

C6_Witness ==
    /\ t_pc = "reparsed"
    /\ Promotions >= 2
    /\ t_again = t_res

\* the measurements of the records of the input that resolve to a row, in
\* input order
RowRecords(table_name, row_name) ==
    LET InRow(item) == /\ WellFormedId(item)
                       /\ TableOf(item) = table_name
                       /\ RowOf(item) = row_name
    IN  SelectSeq(input, InRow)

\* C7: in a built TableSet the cells of a row are its records in input order;
\* the first has comparison 1.0 and every later one the row's first
\* measurement divided by its own, both in picoseconds.
C7_PerRowBaseline ==
    result.tag = "Ok" =>
      \A t \in Positions(tables) : \A r \in Positions(tables[t].rows) :
        LET row == tables[t].rows[r]
            cd == row.column_data
            recs == RowRecords(tables[t].name, row.name)
            first == as_picoseconds(try_new(recs[1].estimate, recs[1].unit).val)
        IN  /\ Len(cd) = Len(recs)
            /\ Len(cd) >= 1
            /\ cd[1].pct = QOne
            /\ \A c \in Positions(cd) :
                 LET time == try_new(recs[c].estimate, recs[c].unit).val
                     this == as_picoseconds(time)
                 IN  /\ cd[c].name = ColumnOf(recs[c])
                     /\ cd[c].time_unit = time
                     /\ c > 1 => cd[c].pct = Q(first.m, this.m, first.e - this.e)

\* the Fib example extended by a third column: ratios 1.0, 10.0 and 120 ns / 240 us
C7_Witness ==
    /\ result.tag = "Ok"
    /\ Len(tables) = 1
    /\ tables[1].name = Fib
    /\ Len(tables[1].rows) = 1
    /\ LET cd == tables[1].rows[1].column_data
       IN  /\ Len(cd) = 3
           /\ cd[1].name = Recursive /\ cd[1].pct = QOne
           /\ cd[2].name = Iterative /\ QEq(cd[2].pct, Q(10, 1, 0))
           /\ cd[3].name = Memoized /\ QEq(cd[3].pct, Q(1, 2000, 0))

\* C8: a Comparison renders as "<ratio>x faster" above one, as
\* "<1/ratio>x slower" below one and as "<ratio>x" at one, the number with two
\* decimals: 2 gives "2.00x faster", 0.5 gives "2.00x slower", 1 gives "1.00x".
C8_ComparisonRendering ==
    t_pc = "rendered" =>
      /\ t_ratio.n > t_ratio.d => t_text = Fmt2(t_ratio) \o XFaster
      /\ t_ratio.n < t_ratio.d => t_text = Fmt2(Q(t_ratio.d, t_ratio.n, 0)) \o XSlower
      /\ t_ratio.n = t_ratio.d => t_text = <<"1", ".", "0", "0", "x">>
      /\ t_ratio = Q(2, 1, 0) => t_text = <<"2", ".", "0", "0">> \o XFaster
      /\ t_ratio = Q(1, 2, 0) => t_text = <<"2", ".", "0", "0">> \o XSlower
      /\ Contains(t_text, <<"f", "a", "s", "t", "e", "r">>) <=> t_ratio.n > t_ratio.d
      /\ Contains(t_text, <<"s", "l", "o", "w", "e", "r">>) <=> t_ratio.n < t_ratio.d

C8_Witness ==
    /\ t_pc = "rendered"
    /\ t_ratio = Q(1, 2, 0)
    /\ t_text = <<"2", ".", "0", "0">> \o XSlower

\* display width of a cell: measurement width + comparison width
CellWidth(col) ==
    Len(TimeUnit_to_flex_str(col.time_unit)) + Len(Comparison_to_flex_str(col.pct))

\* C9: in a built TableSet every cell's column is registered in its table with
\* a maximum width >= the length of the column's name and >= the cell's
\* measurement width + comparison width.
C9_ColumnWidthCoversCells ==
    result.tag = "Ok" =>
      \A t \in Positions(tables) :
        /\ \A i \in Positions(tables[t].columns) :
             tables[t].columns[i].max_width >= Len(tables[t].columns[i].name)
        /\ \A r \in Positions(tables[t].rows) :
             \A c \in Positions(tables[t].rows[r].column_data) :
               LET cell == tables[t].rows[r].column_data[c]
               IN  \E i \in Positions(tables[t].columns) :
                     /\ tables[t].columns[i].name = cell.name
                     /\ tables[t].columns[i].max_width >= Len(cell.name)
                     /\ tables[t].columns[i].max_width >= CellWidth(cell)

\* a column shared by two rows whose second cell is narrower than the first
C9_Witness ==
    /\ result.tag = "Ok"
    /\ Len(tables) = 1
    /\ Len(tables[1].rows) = 2
    /\ LET a == tables[1].rows[1].column_data[1]
           b == tables[1].rows[2].column_data[1]
       IN  /\ a.name = Recursive /\ b.name = Recursive
           /\ CellWidth(b) < CellWidth(a)
           /\ \E i \in Positions(tables[1].columns) :
                /\ tables[1].columns[i].name = Recursive
                /\ tables[1].columns[i].max_width = CellWidth(a)

\* the longest row name of a table
RECURSIVE MaxRowNameLen(_)
MaxRowNameLen(rows) ==
    IF rows = <<>> THEN 0 ELSE Max(Len(Head(rows).name), MaxRowNameLen(Tail(rows)))

\* C10: in a built TableSet the width of column 0 of every table is the
\* length of the table's longest row name, whatever the column names.
C10_RowLabelWidth ==
    result.tag = "Ok" =>
      \A t \in Positions(tables) :
        /\ tables[t].columns # <<>>
        /\ tables[t].columns[1].name = <<>>
        /\ tables[t].columns[1].max_width = MaxRowNameLen(tables[t].rows)

\* the calls of the given methods, in the order they were made
CallsOf(cs, ops) == SelectSeq(cs, LAMBDA c : c.op \in ops)

\* make_tables has returned
Rendered == calls # <<>>

\* the calls from the i-th on follow the bracket grammar, being at the given
\* level with the given number of non-label columns in the open table and
\* cells still due in the open row
RECURSIVE WellBracketed(_, _, _, _, _)
WellBracketed(cs, i, level, columns, due) ==
    IF i > Len(cs) THEN level = "ended"
    ELSE LET op == cs[i].op
             then(l, c, d) == WellBracketed(cs, i + 1, l, c, d)
         IN  CASE op = "start" -> level = "unstarted" /\ then("doc", 0, 0)
               [] op = "start_table" ->
                    level = "doc" /\ then("table", Len(cs[i].args.names) - 1, 0)
               [] op = "start_row" -> level = "table" /\ then("row", columns, columns)
               [] op \in {"used_column", "unused_column"} ->
                    level = "row" /\ due > 0 /\ then("row", columns, due - 1)
               [] op = "end_row" -> level = "row" /\ due = 0 /\ then("table", columns, 0)
               [] op = "end_table" -> level = "table" /\ then("doc", 0, 0)
               [] op = "end" -> level = "doc" /\ then("ended", 0, 0)
               [] OTHER -> FALSE

\* the number of rows of the first n tables
RECURSIVE RowCount(_, _)
RowCount(tbls, n) == IF n = 0 THEN 0 ELSE Len(tbls[n].rows) + RowCount(tbls, n - 1)

\* C11: make_tables calls the formatter in a well-bracketed order: start once
\* and first, end once and last, every table as start_table, its rows,
\* end_table, every row as start_row, one used_column or unused_column per
\* non-label column of its table, end_row, with nothing interleaved.
C11_WellBracketedCalls ==
    Rendered =>
      /\ WellBracketed(calls, 1, "unstarted", 0, 0)
      /\ Len(CallsOf(calls, {"start"})) = 1
      /\ Len(CallsOf(calls, {"end"})) = 1
      /\ Len(CallsOf(calls, {"start_table"})) = Len(tables)
      /\ Len(CallsOf(calls, {"start_row"})) = RowCount(tables, Len(tables))

C11_Witness ==
    /\ Rendered
    /\ Len(CallsOf(calls, {"start_table"})) = 2
    /\ Len(CallsOf(calls, {"start_row"})) = 3
    /\ CallsOf(calls, {"unused_column"}) # <<>>

\* the lines of a report, and those of them that belong to a table
Lines(text) == Split(text, "\n")
TableLines(text) == SelectSeq(Lines(text), LAMBDA l : l # <<>> /\ l[1] = "|")

\* the cells of a table line: what stands between two '|'
Cells(line) == LET parts == Split(line, "|") IN SubSeq(parts, 2, Len(parts) - 1)

\* the number of table lines of the first n tables: header, delimiter and rows
RECURSIVE TableLineCount(_, _)
TableLineCount(tbls, n) ==
    IF n = 0 THEN 0 ELSE 2 + Len(tbls[n].rows) + TableLineCount(tbls, n - 1)

\* what a cell of the k-th of n columns holds beside the registered width: the
\* markup allowance, the space after '|', the one char pad always adds, and
\* for the last cell the space before the closing '|'
Allowance(k, n) ==
    (IF k = 1 THEN FIRST_COL_EXTRA_WIDTH ELSE USED_EXTRA_WIDTH) + 2
    + (IF k = n THEN 1 ELSE 0)

\* C12: in the report of the GFM formatter every column of a table is
\* fixed-width: the header cell, the delimiter cell and the cell of every row
\* of a column have the same number of characters, the column's registered
\* maximum width plus a fixed allowance.
C12_FixedWidthColumns ==
    (outcome.ended /\ returned.tag = "Ok") =>
      LET lines == TableLines(outcome.stdout)
      IN  /\ Len(lines) = TableLineCount(tables, Len(tables))
          /\ \A t \in Positions(tables) :
               \A j \in 1..(2 + Len(tables[t].rows)) :
                 LET cells == Cells(lines[TableLineCount(tables, t - 1) + j])
                     n == Len(tables[t].columns)
                 IN  /\ Len(cells) = n
                     /\ \A k \in 1..n :
                          Len(cells[k]) = tables[t].columns[k].max_width + Allowance(k, n)

C12_Witness ==
    /\ outcome.ended
    /\ returned.tag = "Ok"
    /\ Len(TableLines(outcome.stdout)) = 4
    /\ CallsOf(calls, {"unused_column"}) # <<>>
    /\ \E i \in Positions(outcome.stdout) : outcome.stdout[i] = CrossMark

C14_BuildErrorIsFatal ==
    (result.tag = "Err") =>
      /\ result.kind \in BuildErrorKinds
      /\ calls = <<>>
      /\ returned \in {NotReturned, ReturnedErr(result.kind)}
      /\ outcome.stdout = <<>>

C14_Witness ==
    /\ result = BuildError("DuplicateColumn", Iterative)
    /\ Len(input) = 3
    /\ \E t \in Positions(tables) : Len(tables[t].rows) = 2
    /\ returned = ReturnedErr("DuplicateColumn")
    /\ outcome.ended

\* the values of the reader that are complete benchmark or group records
WellFormedValue(i) ==
    /\ r_stream[i] \in {"Benchmark", "BenchmarkGroup"}
    /\ ~(r_cut /\ i = Len(r_stream))

\* C15: malformed records fail the whole run: whenever a value of the reader is
\* not a well-formed benchmark or group record, a last record cut off before
\* its end included, from_reader returns an error instead of the records read
\* before it.
C15_MalformedRecordFailsRead ==
    (r_res # Reading /\ \E i \in Positions(r_stream) : ~WellFormedValue(i)) =>
      r_res.tag = "Err"

\* C16: the exit status tells success from failure: a run whose input parsing,
\* build or config loading failed describes the failure on standard error and
\* ends with a status different from that of a successful run.
C16_ExitStatusTellsFailure ==
    outcome.ended =>
      /\ returned.tag = "Ok" => outcome.status = 0
      /\ returned.tag = "Err" => (outcome.stderr # "" /\ outcome.status # 0)

\* C17: load_config tells three cases apart: a missing file is no error and
\* gives the default config, without top-level comment and table comments; a
\* file that opens but cannot be read or parsed is a fatal error; any other
\* error on opening it is a fatal error.
C17_LoadConfigCases ==
    cfg.loaded =>
      LET fatal == /\ ~cfg.ok
                   /\ returned = ReturnedErr(cfg.err)
                   /\ calls = <<>>
      IN  /\ cfg.file.open = "NotFound" =>
               /\ cfg.ok
               /\ ~cfg.config.comments.some
               /\ DOMAIN cfg.config.table_comments = {}
          /\ (cfg.file.open = "Ok" /\ cfg.file.content # "Toml") => fatal
          /\ cfg.file.open \notin {"Ok", "NotFound"} => fatal
          /\ (cfg.file.open = "Ok" /\ cfg.file.content = "Toml") =>
               (cfg.ok /\ cfg.config = cfg.file.config)

C17_Witness ==
    /\ cfg.loaded
    /\ cfg.file.open = "NotFound"
    /\ returned.tag = "Ok"
    /\ Len(CallsOf(calls, {"start_row"})) = 1
    /\ outcome.ended

\* the text starts with the given text
StartsWith(text, prefix) ==
    Len(text) >= Len(prefix) /\ SubSeq(text, 1, Len(prefix)) = prefix

\* C18: render looks a table's comment up under its name with spaces replaced
\* by underscores and lowercased: the table "Fib" gets the comment configured
\* for "fib", the table "My T" the one configured for "my_t", a table whose
\* key has no entry gets none, and the report shows the comment it got right
\* under the table's heading.
C18_TableCommentLookup ==
    \A i \in Positions(calls) :
      calls[i].op = "start_table" =>
        LET name == calls[i].args.name
            comment == calls[i].args.comment
            heading == <<"#", "#", " ">> \o name \o <<"\n", "\n">>
        IN  /\ name \in {Fib, MyT}
            /\ name = Fib => comment = MapGet(cfg.config.table_comments, FibKey)
            /\ name = MyT => comment = MapGet(cfg.config.table_comments, MyTKey)
            /\ StartsWith(calls[i].text,
                          IF comment.some
                          THEN heading \o comment.val \o <<"\n", "|">>
                          ELSE heading \o <<"|">>)

C18_Witness ==
    /\ \E i \in Positions(calls) :
         /\ calls[i].op = "start_table"
         /\ calls[i].args.name = Fib
         /\ calls[i].args.comment = Some(FibComment)
    /\ \E i \in Positions(calls) :
         /\ calls[i].op = "start_table"
         /\ calls[i].args.name = MyT
         /\ calls[i].args.comment = Some(MyTComment)

\* the input is one or more benchmark records with two-segment ids, all of
\* one table
OnlyTwoSegmentRecords ==
    /\ input # <<>>
    /\ \A i \in Positions(input) :
         /\ IsBenchmark(input[i])
         /\ SegmentCount(input[i].id) = 2
         /\ TableOf(input[i]) = TableOf(input[1])

\* C19: a record whose id has exactly two segments is recorded under the row
\* named by the empty string: a build of only such records for one table gives
\* that one table with a single row, labelled by the empty string, holding
\* one column per record.
C19_TwoSegmentIdsShareTheEmptyRow ==
    (result = Built /\ OnlyTwoSegmentRecords) =>
      /\ Len(tables) = 1
      /\ tables[1].name = TableOf(input[1])
      /\ Len(tables[1].rows) = 1
      /\ tables[1].rows[1].name = <<>>
      /\ Len(tables[1].rows[1].column_data) = Len(input)
      /\ \A i \in Positions(input) :
           FindName(tables[1].rows[1].column_data, ColumnOf(input[i]), 1) > 0

C19_Witness ==
    /\ result = Built
    /\ OnlyTwoSegmentRecords
    /\ Len(input) = 2
    /\ Len(tables[1].rows[1].column_data) = 2

\* the names of a column list, in order
ColumnNames(columns) == [k \in Positions(columns) |-> columns[k].name]

\* the column list of the named table as the next record finds it once the
\* label column is in place: a table not yet there starts with the label column
ColumnsBefore(tbls, name) ==
    IF FindName(tbls, name, 1) > 0 THEN tbls[FindName(tbls, name, 1)].columns
    ELSE <<ColumnInfo(<<>>, 0)>>

\* how many benchmark records of the records carry the row name
SameRowCount(records, row) ==
    Cardinality({i \in Positions(records) :
                   IsBenchmark(records[i]) /\ RowOf(records[i]) = row})

\* the step consumes a benchmark record with a well-formed id and a
\* recognized unit: the record reaches the column list of its table
RecordsColumn ==
    /\ Len(input') = Len(input) + 1
    /\ WellFormedId(input'[Len(input')])
    /\ input'[Len(input')].unit \in RecognizedLabels

\* what C20 says of a step that records a column
InsertedAtRowCount ==
    LET item == input'[Len(input')]
        before == ColumnsBefore(tables, TableOf(item))
        after == tables'[FindName(tables', TableOf(item), 1)].columns
        idx == SameRowCount(input', RowOf(item))
    IN  IF FindName(before, ColumnOf(item), 1) > 0
        THEN /\ ColumnNames(after) = ColumnNames(before)
             /\ \A k \in Positions(before) : after[k].max_width >= before[k].max_width
        ELSE /\ idx <= Len(before)
             /\ ColumnNames(after) =
                  SubSeq(ColumnNames(before), 1, idx) \o <<ColumnOf(item)>>
                  \o SubSeq(ColumnNames(before), idx + 1, Len(before))
             /\ \A k \in Positions(before) :
                  after[IF k <= idx THEN k ELSE k + 1].max_width >= before[k].max_width

\* C20: a record whose column name is not yet registered in its table has the
\* column inserted into the table's column list at the index equal to the
\* number of benchmark records of the input so far, this one included and all
\* tables together, that carry its row name; a record whose column name is
\* registered leaves the order of the column list alone and can only widen.
C20_InsertionIndex == [][RecordsColumn => InsertedAtRowCount]_vars

\* the values of a sequence in order of first appearance
RECURSIVE FirstSeen(_)
FirstSeen(seq) ==
    IF seq = <<>> THEN <<>>
    ELSE LET front == FirstSeen(SubSeq(seq, 1, Len(seq) - 1))
             last == seq[Len(seq)]
         IN  IF \E k \in Positions(front) : front[k] = last THEN front
             ELSE Append(front, last)

\* the benchmark records of the input, in order
BenchmarksOf(records) == SelectSeq(records, IsBenchmark)

\* table names, and the row names of a table, in order of first appearance
\* in records that all have well-formed ids
TablesSeen(records) ==
    FirstSeen([i \in Positions(BenchmarksOf(records)) |->
                 TableOf(BenchmarksOf(records)[i])])
RowsSeen(records, table) ==
    LET of_table == SelectSeq(BenchmarksOf(records), LAMBDA b : TableOf(b) = table)
    IN  FirstSeen([i \in Positions(of_table) |-> RowOf(of_table[i])])

\* the names under which the calls of a method were made, in order
NamesCalled(cs, op) ==
    [i \in Positions(CallsOf(cs, {op})) |-> CallsOf(cs, {op})[i].args.name]

\* C21: tables are kept and rendered in order of first appearance in the
\* input, and the rows of a table in order of first appearance: while the
\* build goes on the tables and rows stand in that order after every record,
\* so a later record never moves one; start gets the table names in that
\* order, and start_table and start_row are called in it.
C21_FirstAppearanceOrder ==
    /\ result = Building =>
         /\ [t \in Positions(tables) |-> tables[t].name] = TablesSeen(input)
         /\ \A t \in Positions(tables) :
              [r \in Positions(tables[t].rows) |-> tables[t].rows[r].name]
                = RowsSeen(input, tables[t].name)
    /\ (outcome.ended /\ returned.tag = "Ok") =>
         /\ CallsOf(calls, {"start"})[1].args.names = TablesSeen(input)
         /\ NamesCalled(calls, "start_table") = TablesSeen(input)
         /\ NamesCalled(calls, "start_row")
              = Flatten([t \in Positions(TablesSeen(input)) |->
                           RowsSeen(input, TablesSeen(input)[t])])

C21_Witness ==
    /\ outcome.ended
    /\ returned.tag = "Ok"
    /\ Len(input) = 3
    /\ NamesCalled(calls, "start_table") = <<Fib, MyT>>
    /\ TableOf(input[3]) = Fib
    /\ NamesCalled(calls, "start_row") = <<Row10, Row200, <<>>>>

\* what a cell call is about: the method and the arguments make_tables chose
CellOf(call) ==
    [op |-> call.op, time |-> call.args.time, pct |-> call.args.pct,
     max_width |-> call.args.max_width]

\* the cell C22 asks for: the row's data under the column's name if it has
\* some, else an unused cell
CellDue(row, column) ==
    LET held == {d \in Positions(row.column_data) :
                   row.column_data[d].name = column.name}
    IN  IF held # {}
        THEN LET d == CHOOSE d \in held : TRUE
             IN  [op |-> "used_column", time |-> row.column_data[d].time_unit,
                  pct |-> row.column_data[d].pct, max_width |-> column.max_width]
        ELSE [op |-> "unused_column", time |-> NoTime, pct |-> QOne,
              max_width |-> column.max_width]

\* the cells due for the tables, row by row, in column order
CellsDue(tbls) ==
    Flatten([t \in Positions(tbls) |->
      Flatten([r \in Positions(tbls[t].rows) |->
        [k \in 1..(Len(tbls[t].columns) - 1) |->
           CellDue(tbls[t].rows[r], tbls[t].columns[k + 1])]])])

\* the cell calls of the log, in order
CellCalls(cs) ==
    [i \in Positions(CallsOf(cs, {"used_column", "unused_column"})) |->
       CellOf(CallsOf(cs, {"used_column", "unused_column"})[i])]

\* C22: for every row and every non-label column of its table, in column
\* order, render calls used_column with the row's measurement and comparison
\* and the column's registered width exactly when the row has data under the
\* column's name, and unused_column with the column's registered width
\* otherwise.
C22_UsedIffRowHasData ==
    (outcome.ended /\ returned.tag = "Ok") => CellCalls(calls) = CellsDue(tables)

C22_Witness ==
    /\ outcome.ended
    /\ returned.tag = "Ok"
    /\ \E i \in Positions(calls) : calls[i].op = "unused_column"
    /\ \E i \in Positions(calls) :
         calls[i].op = "used_column" /\ QGtOne(calls[i].args.pct)
    /\ Len(CellCalls(calls)) = 4

\* build_from_raw_data run afresh on the input with its group records removed
WithoutGroups ==
    build_from_raw_data([tables |-> <<>>, col_pos |-> EmptyMap, result |-> Building],
                        BenchmarksOf(input))

\* C23: a benchmark-group record is ignored entirely: while from_raw runs and
\* when it has returned, the tables with their rows, column lists and widths,
\* the row-occurrence counter and an error or abort are those of a build of
\* the input with the group records removed.
C23_GroupRecordsIgnored ==
    (returned = NotReturned /\ ~cfg.loaded) =>
      /\ tables = WithoutGroups.tables
      /\ col_pos = WithoutGroups.col_pos
      /\ IF result = Built THEN WithoutGroups.result = Building
         ELSE WithoutGroups.result = result

C23_Witness ==
    /\ result = Built
    /\ returned = NotReturned
    /\ ~cfg.loaded
    /\ Len(input) = 3
    /\ ~IsBenchmark(input[2])
    /\ IsBenchmark(input[1])
    /\ IsBenchmark(input[3])
    /\ Len(tables[1].columns) = 3

\* the table has a non-label column under whose name some row holds data
Populated(table) ==
    \E k \in 2..Len(table.columns) :
      \E r \in Positions(table.rows) :
        \E d \in Positions(table.rows[r].column_data) :
          table.rows[r].column_data[d].name = table.columns[k].name

\* start_table was called for the table
TableStarted(table) ==
    \E i \in Positions(calls) :
      calls[i].op = "start_table" /\ calls[i].args.name = table.name

\* C24: render skips a table that has no populated column, with no
\* start_table, row or end_table call for it, and every table start_table is
\* called for has at least one non-label column holding data.
C24_SkippedIffUnpopulated ==
    (outcome.ended /\ returned.tag = "Ok") =>
      \A t \in Positions(tables) : TableStarted(tables[t]) <=> Populated(tables[t])

\* how a used cell is marked: check mark and bold, cross mark and italic, or
\* neither mark nor emphasis
MarkedFaster(text) ==
    /\ Contains(text, <<"(", CheckMark, " ", "*", "*">>)
    /\ Contains(text, <<"*", "*", ")">>)
    /\ ~Contains(text, <<CrossMark>>)
MarkedSlower(text) ==
    /\ Contains(text, <<"(", CrossMark, " ", "*">>)
    /\ Contains(text, <<"*", ")">>)
    /\ ~Contains(text, <<"*", "*">>)
    /\ ~Contains(text, <<CheckMark>>)
Unmarked(text) ==
    /\ ~Contains(text, <<CheckMark>>)
    /\ ~Contains(text, <<CrossMark>>)
    /\ ~Contains(text, <<"*">>)

\* the call is the cell of the column its row recorded first
BaselineCell(call) ==
    /\ call.op = "used_column"
    /\ tables[call.table].columns[call.col].name
         = tables[call.table].rows[call.row].column_data[1].name

\* C25: the marker of the GFM formatter agrees with the direction of the
\* ratio: a used cell has the check mark and bold comparison text exactly when
\* its ratio is > 1, the cross mark and italic text exactly when it is < 1,
\* neither exactly when it is 1; the cell of a row's first-recorded column
\* never has a marker.
C25_MarkerAgreesWithRatio ==
    (outcome.ended /\ returned.tag = "Ok") =>
      \A i \in Positions(calls) :
        calls[i].op = "used_column" =>
          /\ MarkedFaster(calls[i].text) <=> QGtOne(calls[i].args.pct)
          /\ MarkedSlower(calls[i].text) <=> QLtOne(calls[i].args.pct)
          /\ Unmarked(calls[i].text) <=> QEq(calls[i].args.pct, QOne)
          /\ BaselineCell(calls[i]) => Unmarked(calls[i].text)

C25_Witness ==
    /\ outcome.ended
    /\ returned.tag = "Ok"
    /\ \E i \in Positions(calls) :
         calls[i].op = "used_column" /\ MarkedFaster(calls[i].text)
    /\ \E i \in Positions(calls) :
         calls[i].op = "used_column" /\ MarkedSlower(calls[i].text)
    /\ \E i \in Positions(calls) : BaselineCell(calls[i]) /\ Unmarked(calls[i].text)

\* the used_column calls made in the row for the column of the name with the
\* measurement and comparison of the data
UsedCallsFor(t, r, data) ==
    {i \in Positions(calls) :
       /\ calls[i].op = "used_column"
       /\ calls[i].table = t
       /\ calls[i].row = r
       /\ tables[t].columns[calls[i].col].name = data.name
       /\ calls[i].args.time = data.time_unit
       /\ calls[i].args.pct = data.pct}

\* C26: every measurement a successful build accepted is rendered: for every
\* table, row and column recorded in the tables, the empty column name
\* included, render passes the measurement to exactly one used_column call.
C26_EveryMeasurementRendered ==
    (outcome.ended /\ returned.tag = "Ok") =>
      \A t \in Positions(tables) :
        \A r \in Positions(tables[t].rows) :
          \A d \in Positions(tables[t].rows[r].column_data) :
            Cardinality(UsedCallsFor(t, r, tables[t].rows[r].column_data[d])) = 1

\* number of promotions try_new applied to its binary64 input
FloatPromotions == UnitRank(f_res.val) - LabelRank(f_unit)

RECURSIVE UlpsAbove(_, _)
UlpsAbove(a, n) == IF n = 0 THEN {a} ELSE {a} \cup UlpsAbove(NextUp(a), n - 1)

\* a and b are at most n units in the last place apart
WithinUlps(a, b, n) == b \in UlpsAbove(a, n) \/ a \in UlpsAbove(b, n)

\* C27 as stated: the picosecond value of the measurement parse returns
\* equals the magnitude times the picosecond factor of the input unit, and
\* parse only promotes to larger units.
C27_PicosecondsPreserved ==
    f_pc = "measured" =>
      /\ f_ps = f_direct
      /\ FloatPromotions >= 0

\* C27, amended: the two picosecond values are equal when parse did not
\* promote, and otherwise agree up to the rounding of the divisions by 1000.0
\* and of the two multiplications: they are at most (promotions + 2) units in
\* the last place apart; parse only promotes to larger units.
C27_PicosecondsPreservedUpToRounding ==
    f_pc = "measured" =>
      /\ FloatPromotions >= 0
      /\ FloatPromotions = 0 => f_ps = f_direct
      /\ WithinUlps(f_ps, f_direct, FloatPromotions + 2)

C27_Witness ==
    /\ f_pc = "measured"
    /\ FloatPromotions >= 2
    /\ f_ps # f_direct
    /\ WithinUlps(f_ps, f_direct, 2)

\* the calls of pad made while rendering, each with the call it was made in
PadCalls ==
    {<<i, j>> \in Positions(calls) \X (1..8) : j <= Len(calls[i].pads)}

\* C28: in no call of pad made while rendering a built TableSet does the
\* count of characters written exceed the width to pad to (the column's
\* registered maximum width plus the markup allowance), so the subtraction in
\* pad never underflows and rendering never panics.
C28_PadNeverUnderflows ==
    /\ \A c \in PadCalls :
         calls[c[1]].pads[c[2]].written <= calls[c[1]].pads[c[2]].max_width
    /\ returned.tag = "Panic" => result.tag = "Panic"

\* a report with a marked cell that fills its column to the last character,
\* an unmarked cell and an unused cell
C28_Witness ==
    /\ returned.tag = "Ok"
    /\ \E c \in PadCalls :
         /\ calls[c[1]].op = "used_column"
         /\ MarkedFaster(calls[c[1]].text)
         /\ calls[c[1]].pads[c[2]].written = calls[c[1]].pads[c[2]].max_width
    /\ \E i \in Positions(calls) :
         calls[i].op = "used_column" /\ Unmarked(calls[i].text)
    /\ \E i \in Positions(calls) : calls[i].op = "unused_column"
    /\ \E i \in Positions(calls) :
         calls[i].op = "start_row" /\ calls[i].pads[1].written > 0

====
